---- MODULE Spec2Model ----
(***************************************************************************)
(* Model of the retrieval engine of Multi_Model_Brain:                     *)
(*   src/database/vector_db.py  (VectorDatabase)                           *)
(*   src/database/db_schema.py  (DatabaseSchema, the documents table)      *)
(*   src/app.py                 (delete / clear-all handlers, session)     *)
(*                                                                         *)
(* A text is a sequence of one-character strings.  Word characters are     *)
(* "a", "b", "t"; " " and "\n" are whitespace; "." is punctuation.         *)
(***************************************************************************)
EXTENDS Integers, Sequences, FiniteSets, TLC

(***************************************************************************)
(* Bounds of the model.                                                    *)
(***************************************************************************)
\* max_chunk_size of the add_document call (500 in the source), scaled down.
MaxChunkSize == 4
\* largest number of rows kept in the store / the documents table.
MaxDocs == 2

(***************************************************************************)
(* Characters and Python string primitives.                                *)
(***************************************************************************)
NL == "\n"
SP == " "
DOT == "."
WordChars == {"a", "b", "t"}
Whitespace == {SP, NL}

\* the text made of n copies of character c
Rep(c, n) == [i \in 1..n |-> c]

\* s[i..j] as a sequence (empty when i > j)
Slice(s, i, j) == IF i > j THEN <<>> ELSE SubSeq(s, i, j)

\* s.startswith(sep, i-1): sep occurs in s at (1-based) position i
OccursAt(s, sep, i) ==
    /\ i + Len(sep) - 1 <= Len(s)
    /\ \A k \in 1..Len(sep) : s[i + k - 1] = sep[k]

\* str.find: position of the first occurrence of sep in s, 0 when there is none
FindFirst(s, sep) ==
    LET hits == {i \in 1..Len(s) : OccursAt(s, sep, i)}
    IN  IF hits = {} THEN 0 ELSE CHOOSE i \in hits : \A j \in hits : i <= j

\* str.split(sep) for a non-empty separator: left to right, non-overlapping,
\* empty pieces kept
RECURSIVE Split(_, _)
Split(s, sep) ==
    LET p == FindFirst(s, sep)
    IN  IF p = 0 THEN <<s>>
        ELSE <<Slice(s, 1, p - 1)>> \o Split(Slice(s, p + Len(sep), Len(s)), sep)

\* str.strip(): leading and trailing whitespace removed
Strip(s) ==
    LET keep == {i \in 1..Len(s) : s[i] \notin Whitespace}
    IN  IF keep = {} THEN <<>>
        ELSE LET lo == CHOOSE i \in keep : \A j \in keep : i <= j
                 hi == CHOOSE i \in keep : \A j \in keep : i >= j
             IN  SubSeq(s, lo, hi)

(***************************************************************************)
(* VectorDatabase._chunk_text                                              *)
(***************************************************************************)
\* the sentence loop (vector_db.py 211-216): st = [chunks, temp]
SentenceStep(st, sentence, max) ==
    LET flush == /\ Len(st.temp) + Len(sentence) + 2 > max
                 /\ st.temp # <<>>
        chunks1 == IF flush THEN Append(st.chunks, Strip(st.temp)) ELSE st.chunks
        temp1 == IF flush THEN <<>> ELSE st.temp
    IN  [chunks |-> chunks1, temp |-> temp1 \o sentence \o <<DOT, SP>>]

RECURSIVE SentenceLoop(_, _, _)
SentenceLoop(st, sentences, max) ==
    IF sentences = <<>> THEN st
    ELSE SentenceLoop(SentenceStep(st, Head(sentences), max), Tail(sentences), max)

\* one iteration of the paragraph loop (vector_db.py 199-223):
\* st = [chunks, current]
ParagraphStep(st, paragraph, max) ==
    IF Len(st.current) + Len(paragraph) + 2 > max
    THEN LET chunks1 == IF st.current # <<>>
                        THEN Append(st.chunks, Strip(st.current))
                        ELSE st.chunks
         IN  IF Len(paragraph) > max
             THEN LET r == SentenceLoop([chunks |-> chunks1, temp |-> <<>>],
                                        Split(paragraph, <<DOT, SP>>), max)
                  IN  [chunks |-> r.chunks,
                       current |-> IF r.temp # <<>> THEN Strip(r.temp) ELSE <<>>]
             ELSE [chunks |-> chunks1, current |-> paragraph]
    ELSE [chunks |-> st.chunks,
          current |-> IF st.current # <<>>
                      THEN st.current \o <<NL, NL>> \o paragraph
                      ELSE paragraph]

RECURSIVE ParagraphLoop(_, _, _)
ParagraphLoop(st, paragraphs, max) ==
    IF paragraphs = <<>> THEN st
    ELSE ParagraphLoop(ParagraphStep(st, Head(paragraphs), max), Tail(paragraphs), max)

\* mutant: a short text is returned stripped
ChunkTextStripsShort(text, max) ==
    IF Len(text) <= max THEN <<Strip(text)>>
    ELSE LET r == ParagraphLoop([chunks |-> <<>>, current |-> <<>>],
                                Split(text, <<NL, NL>>), max)
         IN  IF r.current # <<>> THEN Append(r.chunks, Strip(r.current))
             ELSE r.chunks

\* _chunk_text(text, max_chunk_size)
ChunkText(text, max) ==
    IF Len(text) <= max THEN <<text>>
    ELSE LET r == ParagraphLoop([chunks |-> <<>>, current |-> <<>>],
                                Split(text, <<NL, NL>>), max)
         IN  IF r.current # <<>> THEN Append(r.chunks, Strip(r.current))
             ELSE r.chunks

(***************************************************************************)
(* TfidfVectorizer(max_features=512, ngram_range=(1, 2), min_df=1,         *)
(* stop_words='english'): the features of a text.                          *)
(***************************************************************************)
\* the English stop words that can be written with the model's characters
StopWords == {<<"a", "t">>}

\* token_pattern (?u)\b\w\w+\b : the maximal runs of word characters that
\* are at least two characters long, in text order
IsTokenStart(s, i) == s[i] \in WordChars /\ (i = 1 \/ s[i - 1] \notin WordChars)
TokenEnd(s, i) ==
    CHOOSE j \in i..Len(s) :
        /\ \A k \in i..j : s[k] \in WordChars
        /\ (j = Len(s) \/ s[j + 1] \notin WordChars)

RECURSIVE TokensFrom(_, _)
TokensFrom(s, i) ==
    IF i > Len(s) THEN <<>>
    ELSE IF IsTokenStart(s, i)
         THEN LET j == TokenEnd(s, i)
              IN  (IF j > i THEN <<SubSeq(s, i, j)>> ELSE <<>>) \o TokensFrom(s, j + 1)
         ELSE TokensFrom(s, i + 1)

Tokenize(s) == TokensFrom(s, 1)

\* stop words are removed before the n-grams are formed
Analyze(s) == SelectSeq(Tokenize(s), LAMBDA w : w \notin StopWords)

\* unigrams and bigrams of the analysed tokens; a feature is a tuple of tokens
Features(s) ==
    LET w == Analyze(s)
    IN  {<<w[i]>> : i \in 1..Len(w)} \cup {<<w[i], w[i + 1]>> : i \in 1..(Len(w) - 1)}

\* the vocabulary learnt by fit_transform (the 512-feature cap is never
\* reached by a corpus of MaxDocs short chunks)
Vocabulary(docs) == UNION {Features(docs[i]) : i \in 1..Len(docs)}

(***************************************************************************)
(* Optional values (Python None).                                          *)
(***************************************************************************)
None == <<>>
Some(v) == <<v>>
Get(o) == o[1]

(***************************************************************************)
(* psycopg2 Json(metadata) / JSONB: an object is an unordered set of       *)
(* key-value pairs; reading it back gives the dict with those items.       *)
(***************************************************************************)
Json(m) == {<<k, m[k]>> : k \in DOMAIN m}
FromJson(j) == [k \in {p[1] : p \in j} |-> (CHOOSE p \in j : p[1] = k)[2]]

(***************************************************************************)
(* The engine and the documents table as one record w:                     *)
(*   documents, metadata, index, dimension, is_fitted : VectorDatabase     *)
(*   vocabulary : the vocabulary_ of self.vectorizer (None before a fit)   *)
(*   db         : self.db is a DatabaseSchema (TRUE) or None (FALSE)       *)
(*   table      : the rows of the documents table, in created_at order     *)
(*   calls      : persistence calls made so far by the running handler     *)
(*   nfailed    : persistence calls of the running handler that raised     *)
(*   raised     : the running handler has raised to its caller             *)
(* The k-th persistence call of a handler raises iff k \in fail.           *)
(***************************************************************************)
Min(a, b) == IF a <= b THEN a ELSE b

\* VectorDatabase.__init__ up to self.db = None
NewEngine(table) ==
    [documents |-> <<>>, metadata |-> <<>>, index |-> None, dimension |-> None,
     is_fitted |-> FALSE, vocabulary |-> None, db |-> FALSE,
     table |-> table, calls |-> 0, nfailed |-> 0, raised |-> FALSE]

\* a persistence call: TRUE when this call raises
CallFails(w, fail) == (w.calls + 1) \in fail

\* mutant: a save that raises makes add_document raise
SaveDocumentRaises(w, chunk, chunk_metadata, fail) ==
    IF ~w.db THEN w
    ELSE IF CallFails(w, fail)
         THEN [w EXCEPT !.calls = @ + 1, !.nfailed = @ + 1, !.raised = TRUE]
         ELSE [w EXCEPT !.calls = @ + 1,
                        !.table = Append(@, [content |-> chunk,
                                             metadata |-> Json(chunk_metadata),
                                             vector |-> None])]

\* DatabaseSchema.save_document under the try of add_document
SaveDocument(w, chunk, chunk_metadata, fail) ==
    IF ~w.db THEN w
    ELSE IF CallFails(w, fail)
         THEN [w EXCEPT !.calls = @ + 1, !.nfailed = @ + 1]
         ELSE [w EXCEPT !.calls = @ + 1,
                        !.table = Append(@, [content |-> chunk,
                                             metadata |-> Json(chunk_metadata),
                                             vector |-> None])]

\* mutant: the fit raises as soon as one document has no feature
FitTransformNeedsEveryRow(docs) ==
    LET vocab == Vocabulary(docs)
    IN  [ok |-> vocab # {} /\ \A i \in 1..Len(docs) : Features(docs[i]) # {},
         vocabulary |-> vocab,
         rows |-> [i \in 1..Len(docs) |-> Features(docs[i]) \cap vocab]]

\* TfidfVectorizer.fit_transform: raises ValueError (empty vocabulary) when
\* no document has a feature; otherwise one row of features per document
FitTransform(docs) ==
    LET vocab == Vocabulary(docs)
    IN  [ok |-> vocab # {},
         vocabulary |-> vocab,
         rows |-> [i \in 1..Len(docs) |-> Features(docs[i]) \cap vocab]]

\* mutant: is_fitted is set before the fit is tried
RebuildIndexFlagFirst(w) ==
    IF w.documents = <<>> THEN w
    ELSE LET fit == FitTransform(w.documents)
         IN  IF ~fit.ok THEN [w EXCEPT !.raised = TRUE, !.is_fitted = TRUE]
             ELSE [w EXCEPT !.vocabulary = Some(fit.vocabulary),
                            !.dimension = Some(Cardinality(fit.vocabulary)),
                            !.index = Some([d |-> Cardinality(fit.vocabulary),
                                            rows |-> fit.rows]),
                            !.is_fitted = TRUE]

\* mutant: the rows are added to the index there is, no new index is made
RebuildIndexAddsToIndex(w) ==
    IF w.documents = <<>> THEN w
    ELSE LET fit == FitTransform(w.documents)
             old == IF w.index = None THEN <<>> ELSE Get(w.index).rows
         IN  IF ~fit.ok THEN [w EXCEPT !.raised = TRUE]
             ELSE [w EXCEPT !.vocabulary = Some(fit.vocabulary),
                            !.dimension = Some(Cardinality(fit.vocabulary)),
                            !.index = Some([d |-> Cardinality(fit.vocabulary),
                                            rows |-> old \o fit.rows]),
                            !.is_fitted = TRUE]

\* VectorDatabase._rebuild_index
RebuildIndex(w) ==
    IF w.documents = <<>> THEN w
    ELSE LET fit == FitTransform(w.documents)
         IN  IF ~fit.ok THEN [w EXCEPT !.raised = TRUE]
             ELSE [w EXCEPT !.vocabulary = Some(fit.vocabulary),
                            !.dimension = Some(Cardinality(fit.vocabulary)),
                            !.index = Some([d |-> Cardinality(fit.vocabulary),
                                            rows |-> fit.rows]),
                            !.is_fitted = TRUE]

\* mutant: chunk_id counted from 1
ChunkMetadataFromOne(metadata, i, n) ==
    IF n > 1
    THEN [k \in DOMAIN metadata \cup {"chunk_id", "total_chunks"} |->
            IF k = "chunk_id" THEN i + 1
            ELSE IF k = "total_chunks" THEN n
            ELSE metadata[k]]
    ELSE metadata

\* chunk_metadata of chunk i (from 0) out of n (vector_db.py 72-75)
ChunkMetadata(metadata, i, n) ==
    IF n > 1
    THEN [k \in DOMAIN metadata \cup {"chunk_id", "total_chunks"} |->
            IF k = "chunk_id" THEN i
            ELSE IF k = "total_chunks" THEN n
            ELSE metadata[k]]
    ELSE metadata

\* the loop over the chunks (vector_db.py 70-85), from chunk i (from 1) on
RECURSIVE AppendChunks(_, _, _, _, _)
AppendChunks(w, chunks, i, metadata, fail) ==
    IF i > Len(chunks) THEN w
    ELSE LET cm == ChunkMetadata(metadata, i - 1, Len(chunks))
             w1 == [w EXCEPT !.documents = Append(@, chunks[i]),
                             !.metadata = Append(@, cm)]
         IN  AppendChunks(SaveDocument(w1, chunks[i], cm, fail),
                          chunks, i + 1, metadata, fail)

\* mutant: a failed fit rolls the appended chunks back
AddDocumentRollback(w, text, metadata, fail) ==
    LET w1 == RebuildIndex(AppendChunks(w, ChunkText(text, MaxChunkSize), 1,
                                        metadata, fail))
    IN  IF w1.raised
        THEN [w1 EXCEPT !.documents = w.documents, !.metadata = w.metadata]
        ELSE w1

\* mutant: a fitted engine keeps its fit and index when chunks are added
AddDocumentFitOnce(w, text, metadata, fail) ==
    LET w1 == AppendChunks(w, ChunkText(text, MaxChunkSize), 1, metadata, fail)
    IN  IF w.is_fitted THEN w1 ELSE RebuildIndex(w1)

\* VectorDatabase.add_document
AddDocument(w, text, metadata, fail) ==
    RebuildIndex(AppendChunks(w, ChunkText(text, MaxChunkSize), 1, metadata, fail))

\* mutant: clear_all forgets to reset self.dimension
ClearAllKeepsDimension(w, fail) ==
    LET w1 == [w EXCEPT !.documents = <<>>, !.metadata = <<>>, !.index = None,
                        !.is_fitted = FALSE]
    IN  IF ~w.db THEN w1
        ELSE IF CallFails(w1, fail)
             THEN [w1 EXCEPT !.calls = @ + 1, !.nfailed = @ + 1]
             ELSE [w1 EXCEPT !.calls = @ + 1, !.table = <<>>]

\* mutant: clear_all does its whole work under "if self.db"
ClearAllOnlyWithDb(w, fail) ==
    LET w1 == [w EXCEPT !.documents = <<>>, !.metadata = <<>>, !.index = None,
                        !.dimension = None, !.is_fitted = FALSE]
    IN  IF ~w.db THEN w
        ELSE IF CallFails(w1, fail)
             THEN [w1 EXCEPT !.calls = @ + 1, !.nfailed = @ + 1]
             ELSE [w1 EXCEPT !.calls = @ + 1, !.table = <<>>]

\* mutant: clear_all forgets to reset self.is_fitted
ClearAllKeepsFitted(w, fail) ==
    LET w1 == [w EXCEPT !.documents = <<>>, !.metadata = <<>>, !.index = None,
                        !.dimension = None]
    IN  IF ~w.db THEN w1
        ELSE IF CallFails(w1, fail)
             THEN [w1 EXCEPT !.calls = @ + 1, !.nfailed = @ + 1]
             ELSE [w1 EXCEPT !.calls = @ + 1, !.table = <<>>]

\* VectorDatabase.clear_all
ClearAll(w, fail) ==
    LET w1 == [w EXCEPT !.documents = <<>>, !.metadata = <<>>, !.index = None,
                        !.dimension = None, !.is_fitted = FALSE]
    IN  IF ~w.db THEN w1
        ELSE IF CallFails(w1, fail)
             THEN [w1 EXCEPT !.calls = @ + 1, !.nfailed = @ + 1]
             ELSE [w1 EXCEPT !.calls = @ + 1, !.table = <<>>]

\* metadata.get('filename')
GetFilename(m) == IF "filename" \in DOMAIN m THEN Some(m.filename) ELSE None

\* the rows the delete handler keeps (app.py 184-190)
Remaining(w, filename) ==
    LET keep == SelectSeq([j \in 1..Len(w.metadata) |-> j],
                          LAMBDA j : GetFilename(w.metadata[j]) # Some(filename))
    IN  [j \in 1..Len(keep) |-> [doc |-> w.documents[keep[j]],
                                 meta |-> w.metadata[keep[j]]]]

\* the re-add loop (app.py 194-195): an exception of add_document ends it
RECURSIVE ReAdd(_, _, _)
ReAdd(w, remaining, fail) ==
    IF remaining = <<>> THEN w
    ELSE LET w1 == AddDocument(w, Head(remaining).doc, Head(remaining).meta, fail)
         IN  IF w1.raised THEN w1 ELSE ReAdd(w1, Tail(remaining), fail)

\* the vector-database part of the delete button handler (app.py 183-195)
DeleteByFilename(w, filename, fail) ==
    ReAdd(ClearAll(w, fail), Remaining(w, filename), fail)

\* DatabaseSchema.load_all_documents: the rows as dicts
LoadAllDocuments(table) ==
    [i \in 1..Len(table) |-> [content |-> table[i].content,
                              metadata |-> FromJson(table[i].metadata),
                              vector |-> table[i].vector]]

\* VectorDatabase._load_from_database, called with self.db set
LoadFromDatabase(w, fail) ==
    IF CallFails(w, fail)
    THEN [w EXCEPT !.calls = @ + 1, !.nfailed = @ + 1]
    ELSE LET stored_docs == LoadAllDocuments(w.table)
             w1 == [w EXCEPT !.calls = @ + 1,
                             !.documents = @ \o [i \in 1..Len(stored_docs) |->
                                                    stored_docs[i].content],
                             !.metadata = @ \o [i \in 1..Len(stored_docs) |->
                                                    stored_docs[i].metadata]]
         IN  IF stored_docs = <<>> THEN w1
             ELSE [RebuildIndex(w1) EXCEPT !.raised = FALSE]

\* VectorDatabase(): database_url is whether DATABASE_URL is set
Construct(database_url, table, fail) ==
    LET w == NewEngine(table)
    IN  IF ~database_url THEN w
        ELSE IF CallFails(w, fail)
             THEN [w EXCEPT !.calls = @ + 1, !.nfailed = @ + 1]
             ELSE LoadFromDatabase([w EXCEPT !.calls = @ + 1, !.db = TRUE], fail)

\* VectorDatabase.get_stats
GetStats(w) ==
    [total_documents |-> Len(w.documents),
     total_vectors |-> IF w.index # None THEN Len(Get(w.index).rows) ELSE 0,
     dimension |-> IF w.dimension # None /\ Get(w.dimension) # 0
                   THEN Get(w.dimension) ELSE 0]

(***************************************************************************)
(* VectorDatabase.search.  A score is kept as its class: 1 when the inner  *)
(* product of the query and the row is positive (they share a feature of   *)
(* the vocabulary), 0 when it is 0.0; TF-IDF weights are never negative.   *)
(* IndexFlatIP.search returns the best rows, best first; the order of rows *)
(* of one class is left open.                                              *)
(***************************************************************************)
\* self.vectorizer.transform([query]): the vocabulary features of the query
Transform(vocabulary, query) == Features(query) \cap vocabulary

ScoreClass(row, query_vector) == IF row \cap query_vector # {} THEN 1 ELSE 0

\* mutant: the first k rows in index order, whatever their scores
FaissSearchFirstRows(index, query_vector, k) ==
    LET n == Len(index.rows)
        m == Min(k, n)
    IN  {[i \in 1..k |-> IF i <= m THEN i ELSE -1]}

\* index.search(query_vector, k) for k > 0: the possible index lists, each of
\* length k, padded with -1 when the index has fewer than k rows
FaissSearch(index, query_vector, k) ==
    LET n == Len(index.rows)
        m == Min(k, n)
        sc(i) == ScoreClass(index.rows[i], query_vector)
        ranked == {r \in [1..m -> 1..n] :
                     /\ \A i, j \in 1..m : i < j => r[i] # r[j] /\ sc(r[i]) >= sc(r[j])
                     /\ \A i \in 1..n : (\A j \in 1..m : r[j] # i) =>
                                           \A j \in 1..m : sc(r[j]) >= sc(i)}
    IN  {[i \in 1..k |-> IF i <= m THEN r[i] ELSE -1] : r \in ranked}

\* mutant: rank is the position counted from 0
ResultsRankFromZero(w, query_vector, indices) ==
    LET valid == SelectSeq([i \in 1..Len(indices) |-> i], LAMBDA i : indices[i] # -1)
    IN  [j \in 1..Len(valid) |->
           [content |-> w.documents[indices[valid[j]]],
            metadata |-> w.metadata[indices[valid[j]]],
            score |-> ScoreClass(Get(w.index).rows[indices[valid[j]]], query_vector),
            rank |-> valid[j] - 1]]

\* the result list built from the index list (vector_db.py 151-161)
Results(w, query_vector, indices) ==
    LET valid == SelectSeq([i \in 1..Len(indices) |-> i], LAMBDA i : indices[i] # -1)
    IN  [j \in 1..Len(valid) |->
           [content |-> w.documents[indices[valid[j]]],
            metadata |-> w.metadata[indices[valid[j]]],
            score |-> ScoreClass(Get(w.index).rows[indices[valid[j]]], query_vector),
            rank |-> valid[j]]]

Raise == [raised |-> TRUE, results |-> <<>>]
Return(results) == [raised |-> FALSE, results |-> results]

\* mutant: the early return needs both conditions
SearchReturnsEarlyBoth(w) == Len(w.documents) = 0 /\ ~w.is_fitted

\* the early return of search (vector_db.py 133-134)
SearchReturnsEarly(w) == Len(w.documents) = 0 \/ ~w.is_fitted

\* search(query, top_k): the set of its possible outcomes.  Without a fit
\* transform raises NotFittedError, without an index self.index.search
\* raises AttributeError; faiss refuses k < 0 and, depending on its version,
\* k = 0 (assert k > 0) or answers it with no rows.
Search(w, query, top_k) ==
    IF SearchReturnsEarly(w) THEN {Return(<<>>)}
    ELSE IF w.vocabulary = None \/ w.index = None THEN {Raise}
    ELSE LET query_vector == Transform(Get(w.vocabulary), query)
             k == Min(top_k, Len(w.documents))
         IN  IF k < 0 THEN {Raise}
             ELSE IF k = 0 THEN {Raise, Return(<<>>)}
             ELSE {Return(Results(w, query_vector, ix)) :
                     ix \in FaissSearch(Get(w.index), query_vector, k)}

(***************************************************************************)
(* Inputs.                                                                 *)
(***************************************************************************)
Files == {"f1", "f2"}

\* "aa": one chunk with a term
TermText == Rep("a", 2)
\* "at": one chunk, stop words only
StopText == <<"a", "t">>
\* "bb": a term no stored text has
OtherText == Rep("b", 2)
\* one sentence longer than max_chunk_size
LongText == Rep("a", MaxChunkSize + 1)
\* two paragraphs, split into a term chunk and a stop-word chunk
TermStopText == Rep("a", MaxChunkSize - 2) \o <<NL, NL>> \o StopText
\* two paragraphs, split into a stop-word chunk and a term chunk
StopTermText == StopText \o <<NL, NL>> \o Rep("a", MaxChunkSize - 2)
\* blank lines only, longer than max_chunk_size
BlankText == Rep(NL, 2 * MaxChunkSize)

Texts == {TermText, StopText, LongText, TermStopText, StopTermText, BlankText}
Queries == {TermText, OtherText}
TopKs == {-1, 0, 1, 2}

\* the metadata the app passes (app.py 101)
AppMetadata(filename) == [filename |-> filename, type |-> "document"]

\* at most MaxFailures persistence calls raise in one run of the model
MaxFailures == 1

VARIABLES documents, metadata, index, dimension, is_fitted, vocabulary, db,
          table, database_url, result, failures, running, session2,
          processed_files

engine == <<documents, metadata, index, dimension, is_fitted, vocabulary, db>>
vars == <<documents, metadata, index, dimension, is_fitted, vocabulary, db,
          table, database_url, result, failures, running, session2,
          processed_files>>

\* which persistence calls of the next handler raise: the k-th call of a
\* handler raises iff k is in the chosen set
FailSets ==
    {f \in SUBSET (1..(MaxDocs + 1)) : Cardinality(f) <= MaxFailures - failures}

\* the current state as a record for the handlers
World ==
    [documents |-> documents, metadata |-> metadata, index |-> index,
     dimension |-> dimension, is_fitted |-> is_fitted, vocabulary |-> vocabulary,
     db |-> db, table |-> table, calls |-> 0, nfailed |-> 0, raised |-> FALSE]

\* the engine and the table after a call
Engine(w) ==
    /\ documents' = w.documents
    /\ metadata' = w.metadata
    /\ index' = w.index
    /\ dimension' = w.dimension
    /\ is_fitted' = w.is_fitted
    /\ vocabulary' = w.vocabulary
    /\ db' = w.db
    /\ table' = w.table
    /\ failures' = failures + w.nfailed

\* the state after a handler; result records the last call: its name, its
\* arguments (text and filename of an add, filename of a delete), whether it
\* raised, and the list a search returned.  running is the delete handler
\* under way, None when the handlers run as a whole; session2 is the engine
\* of a second browser session over the same table, None when there is one
\* session; processed_files is st.session_state.processed_files.
Becomes(w, op, args) ==
    /\ Engine(w)
    /\ result' = [op |-> op, args |-> args, raised |-> w.raised, results |-> <<>>]
    /\ UNCHANGED <<database_url, running, session2, processed_files>>

\* the bound of the model: at most MaxDocs rows, chunks at most MaxLen long
MaxLen == MaxChunkSize + 3
WithinBounds(w) ==
    /\ Len(w.documents) <= MaxDocs
    /\ Len(w.table) <= MaxDocs
    /\ \A i \in 1..Len(w.documents) : Len(w.documents[i]) <= MaxLen

\* the state after VectorDatabase() over an empty table
Starts(fails) ==
    /\ database_url \in BOOLEAN
    /\ \E fail \in fails :
         LET w == Construct(database_url, <<>>, fail)
         IN  /\ documents = w.documents
             /\ metadata = w.metadata
             /\ index = w.index
             /\ dimension = w.dimension
             /\ is_fitted = w.is_fitted
             /\ vocabulary = w.vocabulary
             /\ db = w.db
             /\ table = w.table
             /\ failures = w.nfailed
             /\ result = [op |-> "construct", args |-> <<>>, raised |-> FALSE,
                          results |-> <<>>]
             /\ running = None
             /\ session2 = None
             /\ processed_files = <<>>

\* st.session_state.vector_db.add_document(content, metadata=...)
AddDocumentOf(texts, fails) ==
    \E text \in texts, filename \in Files, fail \in fails :
        LET w == AddDocument(World, text, AppMetadata(filename), fail)
        IN  WithinBounds(w) /\ Becomes(w, "add_document", <<text, filename>>)

AddDocumentStep(fails) == AddDocumentOf(Texts, fails)

\* the Clear All button (app.py 210-212)
ClearAllStep(fails) ==
    \E fail \in fails : Becomes(ClearAll(World, fail), "clear_all", <<>>)

\* the delete button of a file (app.py 173-195)
DeleteStep(fails) ==
    \E filename \in Files, fail \in fails :
        LET w == DeleteByFilename(World, filename, fail)
        IN  WithinBounds(w) /\ Becomes(w, "delete", <<filename>>)

\* a new session: VectorDatabase() again, over the same table (app.py 18-19)
ConstructStep(fails) ==
    \E fail \in fails :
        Becomes(Construct(database_url, table, fail), "construct", <<>>)

(***************************************************************************)
(* Spec: the persistence adapter, when there is one, works.                *)
(***************************************************************************)
NoFailure == {{}}

Init == Starts(NoFailure)

DoAddDocument == AddDocumentStep(NoFailure)

DoClearAll == ClearAllStep(NoFailure)

DoDelete == DeleteStep(NoFailure)

\* search(query, top_k)
DoSearch ==
    \E query \in Queries, top_k \in TopKs :
        \E out \in Search(World, query, top_k) :
            /\ result' = [op |-> "search", args |-> <<>>, raised |-> out.raised,
                          results |-> out.results]
            /\ UNCHANGED <<engine, table, database_url, failures, running,
                           session2, processed_files>>

DoConstruct == ConstructStep(NoFailure)

Next == DoAddDocument \/ DoClearAll \/ DoDelete \/ DoSearch \/ DoConstruct

Spec == Init /\ [][Next]_vars

(***************************************************************************)
(* SpecFail: persistence calls may raise, at most MaxFailures of them in   *)
(* one run: DatabaseSchema() or load_all_documents in the constructor,     *)
(* save_document in add_document, clear_all_documents in clear_all.        *)
(***************************************************************************)
InitFail == Starts({f \in SUBSET (1..2) : Cardinality(f) <= MaxFailures})

\* a text with a term, one without, and one of two chunks (two saves)
FailTexts == {TermText, StopText, StopTermText}

FailAddDocument == AddDocumentOf(FailTexts, FailSets)

FailClearAll == ClearAllStep(FailSets)

FailDelete == DeleteStep(FailSets)

FailConstruct == ConstructStep(FailSets)

NextFail == FailAddDocument \/ FailClearAll \/ FailDelete \/ DoSearch \/ FailConstruct

SpecFail == InitFail /\ [][NextFail]_vars

(***************************************************************************)
(* SpecThreads: the delete handler call by call, while a second caller of  *)
(* the same engine searches.  VectorDatabase holds no lock, and the        *)
(* handler calls clear_all and then add_document once per kept row, so a   *)
(* search may run between any two of these calls.  running holds the       *)
(* handler's position: the filename, the rows still to re-add, and the     *)
(* corpus before the delete and the one it is to leave.                    *)
(***************************************************************************)
ThreadTexts == {TermText, StopText}

\* app.py 184-193: remaining_docs and remaining_metadata, then clear_all()
ThreadBeginDelete ==
    /\ running = None
    /\ \E filename \in Files :
          LET remaining == Remaining(World, filename)
          IN  /\ Engine(ClearAll(World, {}))
              /\ running' = Some([filename |-> filename,
                                  remaining |-> remaining,
                                  before |-> [i \in 1..Len(documents) |->
                                                <<documents[i], metadata[i]>>],
                                  after |-> [j \in 1..Len(remaining) |->
                                               <<remaining[j].doc, remaining[j].meta>>]])
    /\ UNCHANGED <<database_url, result, session2, processed_files>>

\* app.py 194-195: one turn of the re-add loop; an exception ends the handler
ThreadReAdd ==
    /\ running # None
    /\ Get(running).remaining # <<>>
    /\ LET r == Get(running)
           w == AddDocument(World, Head(r.remaining).doc, Head(r.remaining).meta, {})
       IN  /\ WithinBounds(w)
           /\ Engine(w)
           /\ IF w.raised
              THEN /\ running' = None
                   /\ result' = [op |-> "delete", args |-> <<r.filename>>,
                                 raised |-> TRUE, results |-> <<>>]
              ELSE /\ running' = Some([r EXCEPT !.remaining = Tail(@)])
                   /\ UNCHANGED result
    /\ UNCHANGED <<database_url, session2, processed_files>>

\* the re-add loop ends with every kept row added
ThreadEndDelete ==
    /\ running # None
    /\ Get(running).remaining = <<>>
    /\ running' = None
    /\ result' = [op |-> "delete", args |-> <<Get(running).filename>>,
                  raised |-> FALSE, results |-> <<>>]
    /\ UNCHANGED <<engine, table, database_url, failures, session2,
                   processed_files>>

\* the other handlers of the script start when no handler is under way
ThreadAddDocument == running = None /\ AddDocumentOf(ThreadTexts, NoFailure)

ThreadClearAll == running = None /\ DoClearAll

\* search by the second caller, at any time
ThreadSearch == DoSearch

NextThreads ==
    \/ ThreadBeginDelete
    \/ ThreadReAdd
    \/ ThreadEndDelete
    \/ ThreadAddDocument
    \/ ThreadClearAll
    \/ ThreadSearch

SpecThreads == Init /\ [][NextThreads]_vars

(***************************************************************************)
(* SpecChunk: _chunk_text alone, on every text of at most MaxTextLen       *)
(* characters over a letter, the space, the full stop and the newline,     *)
(* with max_chunk_size one of ChunkSizes.  result holds the call: its      *)
(* arguments (text, max_chunk_size) and, once it has returned, the chunks. *)
(***************************************************************************)
MaxTextLen == MaxChunkSize + 2

ChunkChars == {"a", SP, DOT, NL}

ChunkInputs == UNION {[1..n -> ChunkChars] : n \in 0..MaxTextLen}

ChunkSizes == {MaxChunkSize - 1, MaxChunkSize}

InitChunk ==
    /\ database_url = FALSE
    /\ documents = <<>>
    /\ metadata = <<>>
    /\ index = None
    /\ dimension = None
    /\ is_fitted = FALSE
    /\ vocabulary = None
    /\ db = FALSE
    /\ table = <<>>
    /\ failures = 0
    /\ running = None
    /\ session2 = None
    /\ processed_files = <<>>
    /\ \E text \in ChunkInputs, max \in ChunkSizes :
          result = [op |-> "call", args |-> <<text, max>>, raised |-> FALSE,
                    results |-> <<>>]

\* chunks = self._chunk_text(text, max_chunk_size)
DoChunkText ==
    /\ result.op = "call"
    /\ result' = [result EXCEPT !.op = "_chunk_text",
                                !.results = ChunkText(result.args[1], result.args[2])]
    /\ UNCHANGED <<engine, table, database_url, failures, running,
                   session2, processed_files>>

NextChunk == DoChunkText

SpecChunk == InitChunk /\ [][NextChunk]_vars

(***************************************************************************)
(* SpecSessions: two browser sessions.  Each session builds its own         *)
(* VectorDatabase() into its st.session_state (app.py 18-19); with          *)
(* DATABASE_URL set both engines work on the one documents table.  The      *)
(* variables documents .. db are the engine of the first session, session2  *)
(* holds the engine of the second.  The first session uploads the files of  *)
(* Files, the second those of OtherFiles.                                   *)
(***************************************************************************)
OtherFiles == {"g1", "g2"}

SessionTexts == {TermText, OtherText}

\* the engine of a session, without the table and the counters of a call
Session(w) == [w EXCEPT !.table = <<>>, !.calls = 0, !.nfailed = 0, !.raised = FALSE]

\* the second session's engine over the shared table, for the handlers
World2 == [Get(session2) EXCEPT !.table = table]

\* the state after a handler of the second session
Becomes2(w, op, args) ==
    /\ session2' = Some(Session(w))
    /\ table' = w.table
    /\ result' = [op |-> op, args |-> args, raised |-> w.raised, results |-> <<>>]
    /\ UNCHANGED <<engine, database_url, failures, running, processed_files>>

\* both sessions have started over the empty table
InitSessions ==
    /\ database_url = TRUE
    /\ LET w == Construct(TRUE, <<>>, {})
       IN  /\ documents = w.documents
           /\ metadata = w.metadata
           /\ index = w.index
           /\ dimension = w.dimension
           /\ is_fitted = w.is_fitted
           /\ vocabulary = w.vocabulary
           /\ db = w.db
           /\ table = w.table
           /\ session2 = Some(Session(Construct(TRUE, w.table, {})))
    /\ result = [op |-> "construct", args |-> <<>>, raised |-> FALSE, results |-> <<>>]
    /\ failures = 0
    /\ running = None
    /\ processed_files = <<>>

SessionAddDocument == AddDocumentOf(SessionTexts, NoFailure)

SessionClearAll == DoClearAll

SessionDelete == DoDelete

OtherAddDocument ==
    \E text \in SessionTexts, filename \in OtherFiles :
        LET w == AddDocument(World2, text, AppMetadata(filename), {})
        IN  WithinBounds(w) /\ Becomes2(w, "session2.add_document", <<text, filename>>)

OtherClearAll == Becomes2(ClearAll(World2, {}), "session2.clear_all", <<>>)

OtherDelete ==
    \E filename \in OtherFiles :
        LET w == DeleteByFilename(World2, filename, {})
        IN  WithinBounds(w) /\ Becomes2(w, "session2.delete", <<filename>>)

NextSessions ==
    \/ SessionAddDocument
    \/ SessionClearAll
    \/ SessionDelete
    \/ OtherAddDocument
    \/ OtherClearAll
    \/ OtherDelete

SpecSessions == InitSessions /\ [][NextSessions]_vars

(***************************************************************************)
(* SpecApp: the sidebar of app.py over one session.  processed_files is    *)
(* the list the sidebar shows; the store is st.session_state.vector_db.     *)
(* One click of Process Files handles one uploaded file or one YouTube URL. *)
(***************************************************************************)
\* app.py 97 asks for more than 10 characters of content with chunks of 500;
\* the model scales the length with MaxChunkSize
MinContent == 1

Urls == {"y1"}

AppTexts == {TermText, StopText, OtherText, BlankText}

\* existing_files (app.py 76)
Names(files) == {files[i].name : i \in 1..Len(files)}

\* the state after a handler of the sidebar
AppBecomes(w, op, args, raised, files) ==
    /\ Engine(w)
    /\ result' = [op |-> op, args |-> args, raised |-> raised, results |-> <<>>]
    /\ processed_files' = files
    /\ UNCHANGED <<database_url, running, session2>>

\* app.py 97-116 and 124-137: add_document, then the append to
\* processed_files; an exception of add_document is caught and reported
ProcessContent(filename, type, content, accepted) ==
    IF accepted
    THEN LET w == AddDocument(World, content, [filename |-> filename, type |-> type], {})
         IN  /\ WithinBounds(w)
             /\ AppBecomes(w, "process_files", <<content, filename>>, FALSE,
                           IF w.raised THEN processed_files
                           ELSE Append(processed_files, [name |-> filename, type |-> type]))
    ELSE AppBecomes(World, "process_files", <<content, filename>>, FALSE, processed_files)

\* Process Files with an uploaded file (app.py 74-116)
ProcessUploadedFile ==
    \E filename \in Files, content \in AppTexts :
        /\ filename \notin Names(processed_files)
        /\ ProcessContent(filename, "document", content,
                          content # <<>> /\ Len(Strip(content)) > MinContent)

\* Process Files with a YouTube URL (app.py 120-137)
ProcessYouTube ==
    \E youtube_url \in Urls, content \in AppTexts :
        /\ youtube_url \notin Names(processed_files)
        /\ ProcessContent(youtube_url, "youtube", content, content # <<>>)

\* the delete button of a listed file (app.py 173-208)
DeleteFile ==
    \E i \in 1..Len(processed_files) :
        LET filename_to_delete == processed_files[i].name
            w == DeleteByFilename(World, filename_to_delete, {})
        IN  /\ WithinBounds(w)
            /\ AppBecomes(w, "delete", <<filename_to_delete>>, w.raised,
                          SelectSeq(processed_files,
                                    LAMBDA f : f.name # filename_to_delete))

\* the Clear All button, shown when files are listed (app.py 161, 210-214)
ClearAllButton ==
    /\ processed_files # <<>>
    /\ AppBecomes(ClearAll(World, {}), "clear_all", <<>>, FALSE, <<>>)

\* Reset Session (app.py 46-50), then the rerun's initialisation (app.py 18-23)
ResetSession ==
    AppBecomes(Construct(database_url, table, {}), "reset_session", <<>>, FALSE, <<>>)

NextApp ==
    \/ ProcessUploadedFile
    \/ ProcessYouTube
    \/ DeleteFile
    \/ ClearAllButton
    \/ ResetSession

SpecApp == Init /\ [][NextApp]_vars

(***************************************************************************)
(* State functions used by the properties.                                 *)
(***************************************************************************)
Stats == GetStats(World)

IndexRows == IF index = None THEN 0 ELSE Len(Get(index).rows)

\* the (content, metadata) pairs of the store, in row order
Rows(docs, meta) == [i \in 1..Len(docs) |-> <<docs[i], meta[i]>>]

\* the records of the documents table as (content, metadata) pairs
TableRows == [i \in 1..Len(table) |-> <<table[i].content, FromJson(table[i].metadata)>>]

HasFilename(m, filename) == GetFilename(m) = Some(filename)

\* the rows whose metadata filename is not the given one, order kept
Retained(docs, meta, filename) ==
    SelectSeq(Rows(docs, meta), LAMBDA r : ~HasFilename(r[2], filename))

\* every search returns the empty list and does not raise
SearchFindsNothing ==
    \A query \in Queries, top_k \in TopKs : Search(World, query, top_k) = {Return(<<>>)}

AddRaised == result.op = "add_document" /\ result.raised

(***************************************************************************)
(* C1.  After every completed operation the store, the metadata list and   *)
(* the index have the same number of rows, and get_stats reports           *)
(* total_documents = total_vectors.                                        *)
(* Fails: a failed fit leaves the appended rows without index rows.        *)
(***************************************************************************)
C1_RowCountsAgree ==
    /\ Len(documents) = Len(metadata)
    /\ Len(metadata) = IndexRows
    /\ Stats.total_documents = Stats.total_vectors

(***************************************************************************)
(* C2.  A delete by filename F leaves no chunk of F for a search to        *)
(* return and lowers total_documents by exactly the number of chunks of F. *)
(* Fails: a re-add that raises ends the loop and the later chunks are lost.*)
(***************************************************************************)
C2_DeleteRemovesExactlyF ==
    [][result'.op = "delete" =>
         LET filename == result'.args[1]
             gone == Len(documents) - Len(Retained(documents, metadata, filename))
         IN  /\ \A i \in 1..Len(metadata') : ~HasFilename(metadata'[i], filename)
             /\ \A query \in Queries, top_k \in TopKs :
                  \A out \in Search(World', query, top_k) :
                     \A j \in 1..Len(out.results) :
                        ~HasFilename(out.results[j].metadata, filename)
             /\ Len(documents') = Len(documents) - gone]_vars

(***************************************************************************)
(* C3.  A delete by filename F that completes leaves the retained rows as  *)
(* they were: same contents, same metadata, same order.                    *)
(* Fails: a retained chunk longer than max_chunk_size is chunked again by  *)
(* the re-add and comes back with one more ".".                            *)
(***************************************************************************)
C3_DeleteKeepsRetainedRows ==
    [][(result'.op = "delete" /\ ~result'.raised) =>
         Rows(documents', metadata') = Retained(documents, metadata, result'.args[1])]_vars

(***************************************************************************)
(* C4.  With a working adapter the documents table holds the in-memory     *)
(* corpus, same records in the same order, after every operation, and      *)
(* after a completed delete it holds exactly the retained rows.            *)
(* Fails on the second part, by the re-chunking of C3.                     *)
(***************************************************************************)
C4_TableMirrorsRetained ==
    [][(db' /\ failures' = 0) =>
         /\ TableRows' = Rows(documents', metadata')
         /\ (result'.op = "delete" /\ ~result'.raised) =>
               TableRows' = Retained(documents, metadata, result'.args[1])]_vars

(***************************************************************************)
(* C5.  After an add_document (also one made by the delete loop) whose fit *)
(* failed, the engine is unfit: is_fitted is false and every search        *)
(* returns []; is_fitted stays false until a rebuild succeeds, that is,    *)
(* until the index is the one of the current corpus.                       *)
(***************************************************************************)
C5_FitFailureLeavesUnfit ==
    /\ []((result.op \in {"add_document", "delete"} /\ result.raised) =>
            (~is_fitted /\ SearchFindsNothing))
    /\ [][(~is_fitted /\ is_fitted') =>
            (/\ result'.op \in {"add_document", "delete", "construct"}
             /\ ~result'.raised
             /\ IndexRows' = Len(documents')
             /\ vocabulary' = Some(Vocabulary(documents')))]_vars

C5_Witness == AddRaised /\ ~is_fitted /\ Len(documents) = 1

(***************************************************************************)
(* C6.  An add_document whose fit fails raises, keeps every chunk of the   *)
(* call appended to documents and metadata (no rollback) and leaves the    *)
(* earlier rows as they were.                                              *)
(***************************************************************************)
C6_FailedAddKeepsChunks ==
    [][result'.op = "add_document" =>
         LET text == result'.args[1]
             md == AppMetadata(result'.args[2])
             chunks == ChunkText(text, MaxChunkSize)
             fit_fails == documents' # <<>> /\ Vocabulary(documents') = {}
         IN  /\ fit_fails => result'.raised
             /\ result'.raised =>
                  /\ documents' = documents \o chunks
                  /\ metadata' = metadata \o
                        [i \in 1..Len(chunks) |-> ChunkMetadata(md, i - 1, Len(chunks))]]_vars

C6_Witness ==
    /\ AddRaised
    /\ Len(documents) = 2
    /\ documents[2] = result.args[1]
    /\ metadata[2].filename = result.args[2]

(***************************************************************************)
(* C7.  Every add_document that returns without raising leaves the engine  *)
(* Fitted (is_fitted, at least one document, an index); a Fitted engine    *)
(* becomes unfitted only by clear_all or by a delete that removes every    *)
(* chunk.                                                                  *)
(* Fails: a text of blank lines only gives no chunk (C22), so the add      *)
(* returns on an Empty engine and leaves it Empty.                         *)
(***************************************************************************)
C7_StateMachine ==
    [][/\ (result'.op = "add_document" /\ ~result'.raised) =>
             (is_fitted' /\ Len(documents') >= 1 /\ index' # None)
       /\ (is_fitted /\ ~is_fitted' /\ result'.op # "construct") =>
             \/ result'.op = "clear_all"
             \/ result'.op = "delete" /\
                  Retained(documents, metadata, result'.args[1]) = <<>>]_vars

(***************************************************************************)
(* C8.  Whenever is_fitted is false, get_stats returns 0 documents,        *)
(* 0 vectors and dimension 0.                                              *)
(* Fails: after a failed first add the appended chunks are counted.        *)
(***************************************************************************)
C8_UnfitStatsAreZero ==
    ~is_fitted =>
        Stats = [total_documents |-> 0, total_vectors |-> 0, dimension |-> 0]

(***************************************************************************)
(* C9.  After clear_all, from any state, get_stats is (0, 0, 0), is_fitted *)
(* is false and every search returns []; this lasts until the next         *)
(* add_document (searches, clears and deletes keep it).                    *)
(***************************************************************************)
Cleared ==
    /\ Stats = [total_documents |-> 0, total_vectors |-> 0, dimension |-> 0]
    /\ ~is_fitted
    /\ SearchFindsNothing

C9_ClearEmptiesEngine ==
    /\ [](result.op = "clear_all" => Cleared)
    /\ [][(Cleared /\ result'.op \in {"search", "clear_all", "delete"}) => Cleared']_vars

C9_Witness == result.op = "clear_all" /\ vocabulary # None /\ Cleared

(***************************************************************************)
(* C10.  With an empty corpus or an unfitted engine, search returns the    *)
(* empty list without raising, for every query and every top_k (also       *)
(* top_k <= 0), and changes nothing of the engine or the table.            *)
(***************************************************************************)
C10_UnfitSearchReturnsEmpty ==
    /\ []((Len(documents) = 0 \/ ~is_fitted) => SearchFindsNothing)
    /\ [][((Len(documents) = 0 \/ ~is_fitted) /\ result'.op = "search") =>
            (/\ ~result'.raised
             /\ result'.results = <<>>
             /\ UNCHANGED <<engine, table>>)]_vars

C10_Witness ==
    /\ result.op = "search"
    /\ ~result.raised
    /\ result.results = <<>>
    /\ ~is_fitted
    /\ Len(documents) > 0

(***************************************************************************)
(* C11.  On a Fitted engine with n chunks search(q, top_k) returns exactly *)
(* min(top_k, n) records, ranked 1..m without a gap, scores not            *)
(* increasing, each record the content and metadata of one row, no row     *)
(* twice.                                                                  *)
(* As stated, for every top_k, it fails: with top_k <= 0 the clamp gives   *)
(* k <= 0 and index.search raises.  It holds for every top_k >= 1.         *)
(***************************************************************************)
Fitted == is_fitted /\ Len(documents) >= 1 /\ index # None

\* results are m records, ranked 1..m, best first, each one row of w, no row twice
IsRanking(w, results, m) ==
    /\ Len(results) = m
    /\ \A j \in 1..m : results[j].rank = j
    /\ \A j \in 1..(m - 1) : results[j].score >= results[j + 1].score
    /\ \E row \in [1..m -> 1..Len(w.documents)] :
          /\ \A i, j \in 1..m : i # j => row[i] # row[j]
          /\ \A j \in 1..m : /\ results[j].content = w.documents[row[j]]
                              /\ results[j].metadata = w.metadata[row[j]]

FindsAdded(w, text, md) ==
    \A out \in Search(w, text, 1) :
        /\ ~out.raised
        /\ Len(out.results) = 1
        /\ out.results[1].content = text
        /\ out.results[1].metadata = md
        /\ out.results[1].rank = 1

C12_AddedTextIsFound ==
    [][(/\ ~is_fitted
        /\ result'.op = "add_document"
        /\ Len(result'.args[1]) <= MaxChunkSize) =>
          FindsAdded(World', result'.args[1], AppMetadata(result'.args[2]))]_vars

C12_AddedTextWithTermIsFound ==
    [][(/\ ~is_fitted
        /\ result'.op = "add_document"
        /\ Len(result'.args[1]) <= MaxChunkSize
        /\ Features(result'.args[1]) # {}) =>
          (/\ ~result'.raised
           /\ FindsAdded(World', result'.args[1], AppMetadata(result'.args[2])))]_vars

C12_Witness ==
    /\ result.op = "add_document"
    /\ ~result.raised
    /\ result.args[1] = TermText
    /\ documents = <<TermText>>
    /\ FindsAdded(World, TermText, AppMetadata(result.args[2]))

(***************************************************************************)
(* C13.  An add_document whose text is split into n chunks appends exactly *)
(* n rows at the end of documents and metadata, in chunk order, and        *)
(* changes no earlier row.  For n > 1 the i-th appended row carries the    *)
(* caller's metadata plus chunk_id = i (from 0) and total_chunks = n; for  *)
(* n = 1 it carries the caller's metadata and nothing more.                *)
(***************************************************************************)
C13_AddAppendsChunks ==
    [][result'.op = "add_document" =>
         LET md == AppMetadata(result'.args[2])
             chunks == ChunkText(result'.args[1], MaxChunkSize)
             n == Len(chunks)
             k == Len(documents)
         IN  /\ Len(documents') = k + n
             /\ Len(metadata') = k + n
             /\ \A i \in 1..k : documents'[i] = documents[i] /\ metadata'[i] = metadata[i]
             /\ \A i \in 1..n : documents'[k + i] = chunks[i]
             /\ n > 1 =>
                   \A i \in 1..n :
                      /\ DOMAIN metadata'[k + i] = DOMAIN md \cup {"chunk_id", "total_chunks"}
                      /\ metadata'[k + i].chunk_id = i - 1
                      /\ metadata'[k + i].total_chunks = n
                      /\ \A key \in DOMAIN md : metadata'[k + i][key] = md[key]
             /\ n = 1 => metadata'[k + 1] = md]_vars

C13_Witness ==
    /\ result.op = "add_document"
    /\ Len(ChunkText(result.args[1], MaxChunkSize)) = 2
    /\ Len(documents) = 2
    /\ metadata[1].chunk_id = 0
    /\ metadata[2].chunk_id = 1
    /\ metadata[2].total_chunks = 2
    /\ metadata[2].filename = result.args[2]

(***************************************************************************)
(* C14.  Whenever the engine is fitted, its fit and its index are those of *)
(* a fit from scratch over the current corpus: the index has one row per   *)
(* document, vocabulary, dimension and index rows are the ones             *)
(* fit_transform gives on the current documents, and they and every search *)
(* ranking equal those of a fresh engine that is given the current chunks  *)
(* in order.  Nothing of a removed chunk or an earlier corpus is left.     *)
(***************************************************************************)
\* a fresh engine given the chunks from row i on, one add_document per chunk,
\* its caller going on after an add that raises
RECURSIVE Ingest(_, _, _, _)
Ingest(w, docs, meta, i) ==
    IF i > Len(docs) THEN w
    ELSE Ingest([AddDocument(w, docs[i], meta[i], {}) EXCEPT !.raised = FALSE],
                docs, meta, i + 1)

FreshEngine == Ingest(NewEngine(<<>>), documents, metadata, 1)

\* the index lists a search of w may get from faiss for top_k >= 1
Rankings(w, query, top_k) ==
    FaissSearch(Get(w.index), Transform(Get(w.vocabulary), query),
                Min(top_k, Len(w.documents)))

C14_IndexIsFreshFit ==
    is_fitted =>
        LET fit == FitTransform(documents)
            fresh == FreshEngine
        IN  /\ fit.ok
            /\ vocabulary = Some(fit.vocabulary)
            /\ dimension = Some(Cardinality(fit.vocabulary))
            /\ index = Some([d |-> Cardinality(fit.vocabulary), rows |-> fit.rows])
            /\ IndexRows = Len(documents)
            /\ fresh.is_fitted
            /\ Len(fresh.documents) = Len(documents)
            /\ fresh.vocabulary = vocabulary
            /\ fresh.dimension = dimension
            /\ fresh.index = index
            /\ \A query \in Queries, top_k \in {k \in TopKs : k >= 1} :
                  Rankings(fresh, query, top_k) = Rankings(World, query, top_k)

C14_Witness ==
    /\ result.op = "delete"
    /\ ~result.raised
    /\ is_fitted
    /\ Len(documents) = 1
    /\ Len(table) = 1
    /\ vocabulary = Some(Vocabulary(documents))

(***************************************************************************)
(* C15.  A persistence call that raises never makes the operation raise    *)
(* and never changes its in-memory outcome: after add_document and after   *)
(* clear_all the documents, metadata, index and is_fitted (and whether the *)
(* call raised) are the ones the same call gives with a working adapter,   *)
(* and the constructor never raises.                                       *)
(***************************************************************************)
\* the in-memory part of an engine
Memory(w) == <<w.documents, w.metadata, w.index, w.dimension, w.is_fitted, w.vocabulary>>

C15_PersistenceFailureIsSwallowed ==
    [][/\ result'.op = "add_document" =>
             LET w0 == AddDocument(World, result'.args[1],
                                   AppMetadata(result'.args[2]), {})
             IN  Memory(World') = Memory(w0) /\ result'.raised = w0.raised
       /\ result'.op = "clear_all" =>
             LET w0 == ClearAll(World, {})
             IN  Memory(World') = Memory(w0) /\ ~result'.raised
       /\ result'.op = "construct" => ~result'.raised]_vars

C15_Witness ==
    /\ result.op = "add_document"
    /\ ~result.raised
    /\ db
    /\ failures = 1
    /\ documents = <<TermText>>
    /\ table = <<>>
    /\ is_fitted

(***************************************************************************)
(* C16.  An engine with a persistence adapter and an engine without one    *)
(* (DATABASE_URL unset) go through the same in-memory states and give the  *)
(* same search results, stats and errors: both start empty over an empty   *)
(* table, and from equal in-memory states every add_document, clear_all    *)
(* and delete by filename leaves equal in-memory states and raises in the  *)
(* one iff it raises in the other.                                         *)
(***************************************************************************)
\* the same engine without its adapter
WithoutAdapter(w) == [w EXCEPT !.db = FALSE, !.table = <<>>]

C16_AdapterChangesNothingInMemory ==
    /\ [](/\ (result.op = "construct" /\ table = <<>>) =>
                Memory(World) = Memory(Construct(FALSE, <<>>, {}))
          /\ Stats = GetStats(WithoutAdapter(World))
          /\ \A query \in Queries, top_k \in TopKs :
                Search(World, query, top_k) = Search(WithoutAdapter(World), query, top_k))
    /\ [][/\ result'.op = "add_document" =>
                 LET w0 == AddDocument(WithoutAdapter(World), result'.args[1],
                                       AppMetadata(result'.args[2]), {})
                 IN  Memory(World') = Memory(w0) /\ result'.raised = w0.raised
          /\ result'.op = "clear_all" =>
                 LET w1 == ClearAll(WithoutAdapter(World), {})
                 IN  Memory(World') = Memory(w1) /\ result'.raised = w1.raised
          /\ result'.op = "delete" =>
                 LET w2 == DeleteByFilename(WithoutAdapter(World), result'.args[1], {})
                 IN  Memory(World') = Memory(w2) /\ result'.raised = w2.raised]_vars

C16_Witness ==
    /\ database_url
    /\ db
    /\ result.op = "add_document"
    /\ ~result.raised
    /\ Len(documents) = 2
    /\ Len(table) = 2
    /\ is_fitted

(***************************************************************************)
(* C17.  A constructor over a table of r > 0 records restores exactly      *)
(* those r (content, metadata) rows in load order, as they are stored (no  *)
(* chunking), and has refitted over them when it returns: the engine is    *)
(* fitted and its index is the fit of the restored contents (the stored    *)
(* vector column is not used), so no search runs on restored documents     *)
(* without a rebuilt index.                                                *)
(* Fails: when no restored row has a term the fit raises, the constructor  *)
(* swallows it and returns with the rows restored and no index (the state  *)
(* of C1); a search on it returns [].                                      *)
(***************************************************************************)
C17_LoadRestoresAndRefits ==
    [][(result'.op = "construct" /\ db' /\ Len(table) > 0) =>
         LET fit == FitTransform([i \in 1..Len(table) |-> table[i].content])
         IN  /\ Rows(documents', metadata') = TableRows
             /\ is_fitted'
             /\ index' = Some([d |-> Cardinality(fit.vocabulary), rows |-> fit.rows])
             /\ IndexRows' = Len(table)]_vars

(***************************************************************************)
(* C18.  add_document, delete by filename and clear_all exclude each other *)
(* and search: a search never observes a corpus in the middle of a         *)
(* mutation.  For the delete handler: a search that runs while a delete is *)
(* under way sees either the whole corpus of before the delete or the      *)
(* whole corpus the delete leaves, never the emptied or partially re-added *)
(* one.                                                                    *)
(* Fails: there is no lock; between clear_all and the re-adds the engine   *)
(* is empty, then partially filled, and search reads it as it is.          *)
(***************************************************************************)
C18_SearchSeesWholeCorpus ==
    [][(result'.op = "search" /\ running # None) =>
          Rows(documents, metadata) \in {Get(running).before, Get(running).after}]_vars

(***************************************************************************)
(* C19.  For every text with len(text) <= max_chunk_size, _chunk_text      *)
(* returns exactly [text]: one chunk, the text unchanged (not stripped,    *)
(* also when it is empty or blank).                                        *)
(***************************************************************************)
ChunkReturned == result.op = "_chunk_text"

C19_ShortTextIsOneChunk ==
    (ChunkReturned /\ Len(result.args[1]) <= result.args[2]) =>
        result.results = <<result.args[1]>>

C19_Witness ==
    /\ ChunkReturned
    /\ Len(result.args[1]) = result.args[2]
    /\ Head(result.args[1]) = SP
    /\ result.results = <<result.args[1]>>

(***************************************************************************)
(* C20.  The chunks of a text, put together, are the text up to            *)
(* whitespace: the non-whitespace characters of the chunks, in order, are  *)
(* those of the text; none is added, dropped, repeated or moved.           *)
(* Fails: ". " is appended after every sentence of a paragraph that is     *)
(* split into sentences, also after the last one, which adds a ".".        *)
(***************************************************************************)
RECURSIVE Concat(_)
Concat(chunks) == IF chunks = <<>> THEN <<>> ELSE Head(chunks) \o Concat(Tail(chunks))

NonWhitespace(s) == SelectSeq(s, LAMBDA c : c \notin Whitespace)

C20_ChunksKeepTheText ==
    ChunkReturned =>
        NonWhitespace(Concat(result.results)) = NonWhitespace(result.args[1])

(***************************************************************************)
(* C21.  Every chunk _chunk_text returns is at most max_chunk_size long,   *)
(* except a chunk made of one single sentence that is itself longer than   *)
(* max_chunk_size; a sentence of at most max_chunk_size characters never   *)
(* gives a longer chunk.                                                   *)
(* Fails: a sentence of exactly max_chunk_size characters is emitted with  *)
(* its "." and is max_chunk_size + 1 long.                                 *)
(***************************************************************************)
\* the sentences of the paragraphs of a text
Sentences(text) ==
    LET paragraphs == Split(text, <<NL, NL>>)
    IN  UNION {{Split(paragraphs[i], <<DOT, SP>>)[j] :
                  j \in 1..Len(Split(paragraphs[i], <<DOT, SP>>))} :
               i \in 1..Len(paragraphs)}

C21_ChunksWithinLimit ==
    ChunkReturned =>
        \A i \in 1..Len(result.results) :
            \/ Len(result.results[i]) <= result.args[2]
            \/ \E sentence \in Sentences(result.args[1]) :
                  /\ Len(sentence) > result.args[2]
                  /\ result.results[i] = Strip(sentence \o <<DOT, SP>>)

(***************************************************************************)
(* C22.  For every text _chunk_text returns a list that is not empty and   *)
(* has no empty string in it, also for the empty text, for whitespace only *)
(* and for blank lines only.                                               *)
(* Fails: the empty text comes back as [""]; a text of blank lines only,   *)
(* longer than max_chunk_size, gives [] or [""].                           *)
(***************************************************************************)
C22_ChunksAreNotEmpty ==
    ChunkReturned =>
        /\ result.results # <<>>
        /\ \A i \in 1..Len(result.results) : result.results[i] # <<>>

(***************************************************************************)
(* C23.  A chunk with no vocabulary term (stop words only) does not make   *)
(* add_document fail when the corpus has a chunk with terms: the add       *)
(* returns, the chunk is stored, its index row is the zero vector and it   *)
(* counts in total_vectors.                                                *)
(***************************************************************************)
C23_TermlessChunkIsStored ==
    [][(result'.op = "add_document" /\ Vocabulary(documents') # {}) =>
         LET chunks == ChunkText(result'.args[1], MaxChunkSize)
             k == Len(documents)
         IN  /\ ~result'.raised
             /\ is_fitted'
             /\ \A i \in 1..Len(chunks) :
                   Features(chunks[i]) = {} =>
                      /\ documents'[k + i] = chunks[i]
                      /\ Get(index').rows[k + i] = {}
             /\ Stats'.total_vectors = Len(documents')]_vars

C23_Witness ==
    /\ result.op = "add_document"
    /\ ~result.raised
    /\ result.args[1] = StopText
    /\ documents = <<TermText, StopText>>
    /\ is_fitted
    /\ Get(index).rows[2] = {}
    /\ Stats.total_vectors = 2

(***************************************************************************)
(* C24.  On a Fitted engine a search whose query shares no vocabulary term *)
(* with the corpus (its vector is zero) returns the empty list and does    *)
(* not raise.                                                              *)
(* Fails on the first part: index.search still returns min(top_k, n) rows, *)
(* each with score 0.0, and search returns them.                           *)
(***************************************************************************)
C24_NoMatchReturnsEmpty ==
    Fitted =>
        \A query \in Queries, top_k \in {k \in TopKs : k >= 1} :
            Transform(Get(vocabulary), query) = {} =>
                Search(World, query, top_k) = {Return(<<>>)}

(***************************************************************************)
(* C25.  When two stored chunks have the same score for a query, search    *)
(* ranks the one with the lower row index first (and, when only one of     *)
(* them fits in top_k, returns that one).                                  *)
(* Fails: search takes the order index.search gives and IndexFlatIP        *)
(* promises no order among equal scores; nothing in search breaks ties.    *)
(* Only rows whose scores are certainly equal are compared: rows of equal  *)
(* content, and rows that both score 0.                                    *)
(***************************************************************************)
\* rows a and b of the engine have the same score for the query vector
SameScore(query_vector, a, b) ==
    \/ documents[a] = documents[b]
    \/ /\ ScoreClass(Get(index).rows[a], query_vector) = 0
       /\ ScoreClass(Get(index).rows[b], query_vector) = 0

C25_TiesByInsertionOrder ==
    Fitted =>
        \A query \in Queries, top_k \in {k \in TopKs : k >= 1} :
            LET query_vector == Transform(Get(vocabulary), query)
                m == Min(top_k, Len(documents))
            IN  \A ix \in Rankings(World, query, top_k) :
                    /\ \A i, j \in 1..m :
                          (i < j /\ SameScore(query_vector, ix[i], ix[j])) => ix[i] < ix[j]
                    /\ \A i \in 1..m, b \in 1..Len(documents) :
                          ((\A j \in 1..m : ix[j] # b) /\ SameScore(query_vector, ix[i], b))
                             => ix[i] < b

(***************************************************************************)
(* C26.  Rebuilding the index again over the same documents gives the same *)
(* searches: _rebuild_index on a fitted engine leaves vocabulary,          *)
(* dimension and index as they are, a second _rebuild_index after a first  *)
(* changes nothing more, and so for every query and top_k the search       *)
(* outcomes (rows, order, ranks, errors) are the same before and after.    *)
(***************************************************************************)
C26_RebuildIsIdempotent ==
    documents # <<>> =>
        LET w1 == RebuildIndex(World)
            w2 == RebuildIndex([w1 EXCEPT !.raised = FALSE])
        IN  /\ is_fitted => (~w1.raised /\ Memory(w1) = Memory(World))
            /\ Memory(w2) = Memory(w1)
            /\ w2.raised = w1.raised
            /\ \A query \in Queries, top_k \in TopKs :
                  /\ Search(w2, query, top_k) = Search(w1, query, top_k)
                  /\ is_fitted => Search(w1, query, top_k) = Search(World, query, top_k)

C26_Witness ==
    /\ Fitted
    /\ result.op = "search"
    /\ Len(documents) = 2
    /\ Len(result.results) = 2
    /\ result.results[1].score = result.results[2].score
    /\ Memory(RebuildIndex(World)) = Memory(World)

(***************************************************************************)
(* C27.  In every reachable state is_fitted implies that documents is not  *)
(* empty, that there is an index and that dimension is set: no sequence of *)
(* adds, clears, deletes, searches and failed fits gives is_fitted with an *)
(* empty corpus or without an index.                                       *)
(***************************************************************************)
C27_FittedHasCorpusAndIndex ==
    is_fitted => (documents # <<>> /\ index # None /\ dimension # None)

C27_Witness ==
    /\ result.op = "add_document"
    /\ result.args[1] = TermText
    /\ documents = <<StopText, TermText>>
    /\ is_fitted
    /\ index # None
    /\ dimension = Some(1)

(***************************************************************************)
(* C28.  With two sessions over one documents table, a delete by filename  *)
(* or a clear_all of one session removes from the table only that          *)
(* session's rows: the rows the other session saved are in the table after *)
(* the step as they were before it, in every interleaving.                 *)
(* Fails: clear_all_documents deletes every row of the table, and the      *)
(* delete handler saves again only the rows of its own engine.             *)
(***************************************************************************)
RowsOf(rows, files) ==
    SelectSeq(rows, LAMBDA r : \E filename \in files : HasFilename(r[2], filename))

C28_OtherSessionsRowsStay ==
    [][/\ result'.op \in {"clear_all", "delete"} =>
             RowsOf(TableRows', OtherFiles) = RowsOf(TableRows, OtherFiles)
       /\ result'.op \in {"session2.clear_all", "session2.delete"} =>
             RowsOf(TableRows', Files) = RowsOf(TableRows, Files)]_vars

(***************************************************************************)
(* C29.  After every completed action of the sidebar (process files,       *)
(* delete of one file, clear all, reset session with the initialisation    *)
(* and its load from the table) the filenames in the store's metadata are  *)
(* the names in processed_files; a name that is not in processed_files has *)
(* no chunk in the store, so processing it again duplicates nothing.       *)
(* Fails: after Reset Session the engine is loaded from the table while    *)
(* processed_files starts empty.                                           *)
(***************************************************************************)
StoreNames == {Get(GetFilename(metadata[i])) : i \in 1..Len(metadata)}

C29_StoreNamesAreProcessedFiles ==
    ~result.raised => StoreNames = Names(processed_files)

====
